---- MODULE Spec2Model ----
(***************************************************************************)
(* ByteTrail::BezierCurve (BezierCurve.cpp / include/BezierCurve.h): the   *)
(* cubic Bezier engine with its two dirty flags and three cached point     *)
(* sequences.                                                              *)
(*                                                                         *)
(* Numbers.  A C++ double is modelled by an exact value: a rational, a     *)
(* rational plus a rational multiple of 1/sqrt(s) (what dividing by the    *)
(* tangent's norm produces), or NaN (what 0.0/0.0 produces).  Rounding is  *)
(* not modelled.                                                           *)
(***************************************************************************)
EXTENDS Integers, Sequences, FiniteSets, TLC

\* ------------------------------------------------------------------ bounds
\* Number of API calls made on one engine in a run.
MaxCalls == 4

\* ------------------------------------------------- constants of the class
kControlPoints == 4
kDerivativeControlPoints == 3

\* ------------------------------------------------------ exact arithmetic
Abs(a) == IF a < 0 THEN -a ELSE a

RECURSIVE GCD(_, _)
GCD(a, b) == IF b = 0 THEN a ELSE GCD(b, a % b)

\* The rational n/d (d > 0) in lowest terms.
Rat(n, d) ==
    LET g == GCD(Abs(n), d)
    IN  [n |-> n \div g, d |-> d \div g]

RatInt(i) == [n |-> i, d |-> 1]

RatAdd(a, b) ==
    LET g == GCD(a.d, b.d)
        l == (a.d \div g) * b.d
    IN  Rat(a.n * (l \div a.d) + b.n * (l \div b.d), l)

RatNeg(a) == [n |-> -a.n, d |-> a.d]

RatSub(a, b) == RatAdd(a, RatNeg(b))

RatMul(a, b) ==
    LET g1 == GCD(Abs(a.n), b.d)
        g2 == GCD(Abs(b.n), a.d)
    IN  IF a.n = 0 \/ b.n = 0 THEN RatInt(0)
        ELSE [n |-> (a.n \div g1) * (b.n \div g2),
              d |-> (a.d \div g2) * (b.d \div g1)]

\* (int) of a positive rational: truncation.
RatTrunc(a) == a.n \div a.d

\* Integer square root of a perfect square, 0 when n is not one.
RECURSIVE SqrtSearch(_, _, _)
SqrtSearch(n, lo, hi) ==
    IF lo > hi THEN 0
    ELSE LET mid == (lo + hi) \div 2
         IN  IF mid * mid = n THEN mid
             ELSE IF mid * mid < n THEN SqrtSearch(n, mid + 1, hi)
             ELSE SqrtSearch(n, lo, mid - 1)

\* A square is 0, 1, 4 or 9 modulo 16, 0, 1, 4 or 7 modulo 9 and 0, 1 or 4 modulo 5.
ExactSqrt(n) ==
    IF (n % 16) \notin {0, 1, 4, 9} \/ (n % 9) \notin {0, 1, 4, 7} \/ (n % 5) \notin {0, 1, 4}
    THEN 0
    ELSE SqrtSearch(n, 1, IF n < 46340 THEN n ELSE 46340)

\* A double, as the tuple <<qn, qd, pn, pd, s>>: the value qn/qd + (pn/pd) / sqrt(s),
\* with s a positive integer that is no perfect square unless pn = 0 (then
\* pd = 1 and s = 1); qd = 0 marks NaN.
Num(q) == <<q.n, q.d, 0, 1, 1>>

Surd(q, p, s) == IF p.n = 0 THEN Num(q) ELSE <<q.n, q.d, p.n, p.d, s>>

NumInt(i) == <<i, 1, 0, 1, 1>>

NaN == <<0, 0, 0, 1, 1>>

IsNaN(v) == v[2] = 0

\* The rational and the irrational part of a double that is no NaN.
NumQ(v) == [n |-> v[1], d |-> v[2]]
NumP(v) == [n |-> v[3], d |-> v[4]]
NumS(v) == v[5]

\* A point of a cached sequence, and Point's default value: Point is declared
\* in Geometry.h, and a fresh Point is taken to be the origin, which is where
\* the engine's description puts the control points of a fresh engine.
Pt(x, y) == [x |-> x, y |-> y]

PointDefault == Pt(NumInt(0), NumInt(0))

RatInv(a) == IF a.n < 0 THEN [n |-> -a.d, d |-> -a.n] ELSE [n |-> a.d, d |-> a.n]

\* dist = std::sqrt(tan_x * tan_x + tan_y * tan_y), for rationals tan_x, tan_y.
\* With (a, b) the integer vector in lowest terms along (tan_x, tan_y) and
\* s = a*a + b*b, dist is a positive rational multiple of sqrt(s), so that
\* tan_x / dist = a / sqrt(s) and tan_y / dist = b / sqrt(s); r is sqrt(s) when
\* that is an integer, else 0.  zero: the tangent is (0, 0) and dist is 0.0.
Norm(tx, ty) ==
    IF tx.n = 0 /\ ty.n = 0 THEN [zero |-> TRUE, a |-> 0, b |-> 0, s |-> 1, r |-> 1]
    ELSE LET g0 == GCD(tx.d, ty.d)
             A  == tx.n * (ty.d \div g0)
             B  == ty.n * (tx.d \div g0)
             g  == GCD(Abs(A), Abs(B))
             a  == A \div g
             b  == B \div g
             s  == a * a + b * b
         IN  [zero |-> FALSE, a |-> a, b |-> b, s |-> s, r |-> ExactSqrt(s)]

\* tan /= dist, for the component c (a or b) of Norm's vector: 0.0 / 0.0 is NaN.
DivNorm(c, dist) ==
    IF dist.zero THEN NaN
    ELSE IF dist.r > 0 THEN Num([n |-> c, d |-> dist.r])
    ELSE Surd(RatInt(0), RatInt(c), dist.s)

\* v * distance for a rational distance.
NumScale(v, distance) ==
    IF IsNaN(v) THEN NaN
    ELSE Surd(RatMul(NumQ(v), distance), RatMul(NumP(v), distance), NumS(v))

NumNeg(v) == IF IsNaN(v) THEN NaN ELSE <<-v[1], v[2], -v[3], v[4], v[5]>>

\* a + b where a is rational (a primary sample) or NaN.
NumAdd(a, b) ==
    IF IsNaN(a) \/ IsNaN(b) THEN NaN
    ELSE Surd(IF b[1] = 0 THEN NumQ(a) ELSE RatAdd(NumQ(a), NumQ(b)), NumP(b), NumS(b))

NumSub(a, b) == NumAdd(a, NumNeg(b))

\* ------------------------------------------------------------- the engine
VARIABLES
    _resolution,              \* double, an exact rational
    _length,                  \* double, set by the constructor only
    _fixed_length,            \* bool, set by the constructor only
    _parallels_distance,      \* double, set by the constructor only
    _control_points,          \* Point[kControlPoints], integer coordinates
    m_derivative_ctrl_pts,    \* Point[kDerivativeControlPoints]
    _curve_points,            \* std::vector<Point>
    _top_left_points,         \* std::vector<Point>
    _bottom_right_points,     \* std::vector<Point>
    _control_point_modified,  \* bool
    _resolution_modified,     \* bool
    op,       \* the last call: its name, its arguments, what it did
    held,     \* per selector, what the first GetCurve since the last mutator call returned
    changed,  \* a mutator changed a value and no GetCurve call was made since
    calls,    \* number of calls made
    aborted   \* an assert failed: the process has ended

engine == <<_resolution, _length, _fixed_length, _parallels_distance,
            _control_points, m_derivative_ctrl_pts, _curve_points,
            _top_left_points, _bottom_right_points,
            _control_point_modified, _resolution_modified>>

vars == <<engine, op, held, changed, calls, aborted>>

\* A resolution: the rational n/d, and whether the stored double lies just
\* above n/d.  A float argument that is a power of two is stored exactly; the
\* float literal 0.025 is 0.025 + 3.7e-10.  The samples are computed from n/d.
Resolution(n, d, above) == [n |-> n, d |-> d, above |-> above]

kDefaultResolution == Resolution(1, 40, TRUE)
kDefaultDistance == Rat(9, 2)
kDefaultLength == RatInt(100)

\* The fields of the object as one value.
Engine ==
    [resolution |-> _resolution,
     parallels_distance |-> _parallels_distance,
     control_points |-> _control_points,
     derivative_ctrl_pts |-> m_derivative_ctrl_pts,
     curve_points |-> _curve_points,
     top_left_points |-> _top_left_points,
     bottom_right_points |-> _bottom_right_points,
     control_point_modified |-> _control_point_modified,
     resolution_modified |-> _resolution_modified]

\* std::vector<Point>::resize: the elements kept, new ones value-initialised.
Resize(v, size) == [i \in 1..size |-> IF i <= Len(v) THEN v[i] ELSE PointDefault]

\* (int) (1.0F / _resolution + 1): a resolution just above 1/k has a reciprocal
\* just below k.
SampleCount(resolution) ==
    LET q == RatAdd(RatInv(resolution), RatInt(1))
    IN  IF resolution.above /\ q.d = 1 THEN q.n - 1 ELSE RatTrunc(q)

\* ResizeCurve resizing _curve_points alone.
ResizeCurve_PrimaryOnly(e) ==
    LET size == SampleCount(e.resolution)
    IN  [e EXCEPT !.curve_points = Resize(@, size)]

ResizeCurve(e) ==
    LET size == SampleCount(e.resolution)
    IN  [e EXCEPT !.curve_points = Resize(@, size),
                  !.top_left_points = Resize(@, size),
                  !.bottom_right_points = Resize(@, size)]

\* c0 * pow(1-t, 3) + c1 * 3 * pow(1-t, 2) * t + c2 * 3 * (1-t) * t * t + c3 * pow(t, 3),
\* for t = a/b, summed over the common denominator b^3.
CubicBezier(c0, c1, c2, c3, t) ==
    LET a == t.n
        u == t.d - t.n
    IN  Rat(c0 * (u * u * u) + c1 * 3 * (u * u) * a + c2 * 3 * u * a * a
              + c3 * (a * a * a),
            t.d * t.d * t.d)

\* d0 * pow(1-t, 2) + d1 * 2 * (1-t) * t + d2 * pow(t, 2), for t = a/b, summed
\* over the common denominator b^2.
QuadBezier(d0, d1, d2, t) ==
    LET a == t.n
        u == t.d - t.n
    IN  Rat(d0 * (u * u) + d1 * 2 * u * a + d2 * (a * a), t.d * t.d)

\* The loop of RecalculateCurve over the control points.
DerivativeControlPoints(cp) ==
    [i \in 0..(kDerivativeControlPoints - 1) |->
        [x |-> 3 * (cp[i + 1].x - cp[i].x), y |-> 3 * (cp[i + 1].y - cp[i].y)]]

\* The parameter of the primary sample at vector index k (1 <= k <= size-2):
\* idx starts at 0 and "t = _resolution * idx++" runs once per interior sample.
PrimaryT(resolution, k) == RatMul(resolution, RatInt(k - 1))

\* _curve_points after the writes of RecalculateCurve: element 0, then the
\* elements begin()+1 .. end()-2, then back() (the last write to an element is
\* the one that stays).
PrimarySamples(cp, resolution, curve) ==
    LET n == Len(curve)
    IN  [i \in 1..n |->
           IF i = n THEN Pt(NumInt(cp[3].x), NumInt(cp[3].y))
           ELSE IF i = 1 THEN Pt(NumInt(cp[0].x), NumInt(cp[0].y))
           ELSE LET t == PrimaryT(resolution, i - 1)
                IN  Pt(Num(CubicBezier(cp[0].x, cp[1].x, cp[2].x, cp[3].x, t)),
                       Num(CubicBezier(cp[0].y, cp[1].y, cp[2].y, cp[3].y, t)))]
        \o <<>>

\* RecalculateTangentPoints without the push_back of the end point.
RecalculateTangentPoints_NoEndPoint(d, resolution) ==
    LET size == SampleCount(resolution)
        mid  == [idx \in 1..(size - 2) |->
                   LET t == RatMul(resolution, RatInt(idx))
                   IN  [x |-> QuadBezier(d[0].x, d[1].x, d[2].x, t),
                        y |-> QuadBezier(d[0].y, d[1].y, d[2].y, t)]]
    IN  <<[x |-> RatInt(d[0].x), y |-> RatInt(d[0].y)]>> \o mid

\* The vector RecalculateTangentPoints builds: rational tangent vectors.
RecalculateTangentPoints(d, resolution) ==
    LET size == SampleCount(resolution)
        mid  == [idx \in 1..(size - 2) |->
                   LET t == RatMul(resolution, RatInt(idx))
                   IN  [x |-> QuadBezier(d[0].x, d[1].x, d[2].x, t),
                        y |-> QuadBezier(d[0].y, d[1].y, d[2].y, t)]]
    IN  <<[x |-> RatInt(d[0].x), y |-> RatInt(d[0].y)]>> \o mid
        \o <<[x |-> RatInt(d[kDerivativeControlPoints - 1].x),
              y |-> RatInt(d[kDerivativeControlPoints - 1].y)]>>

\* The tangent left as RecalculateTangentPoints computed it.
UnitTangent_Unnormalised(tan) == [x |-> Num(tan.x), y |-> Num(tan.y)]

\* One pass of the loop of RecalculateParallels: the unit tangent.
UnitTangent(tan) ==
    LET dist == Norm(tan.x, tan.y)
    IN  [x |-> DivNorm(dist.a, dist), y |-> DivNorm(dist.b, dist)]

\* RecalculateParallels writes elements 0..tangent_points->size()-1 of the two
\* offset vectors (never more than they hold: both sizes are SampleCount).
RecalculateParallels(e, tangent_points, distance) ==
    LET curve == e.curve_points
        \* tan_x * distance and tan_y * distance of each pass
        off   == [i \in 1..Len(tangent_points) |->
                    LET u == UnitTangent(tangent_points[i])
                    IN  [x |-> NumScale(u.x, distance), y |-> NumScale(u.y, distance)]]
                 \o <<>>
    IN  [e EXCEPT
          !.top_left_points =
              [i \in 1..Len(@) |->
                  IF i <= Len(tangent_points)
                  THEN Pt(NumAdd(curve[i].x, off[i].y), NumSub(curve[i].y, off[i].x))
                  ELSE @[i]],
          !.bottom_right_points =
              [i \in 1..Len(@) |->
                  IF i <= Len(tangent_points)
                  THEN Pt(NumSub(curve[i].x, off[i].y), NumAdd(curve[i].y, off[i].x))
                  ELSE @[i]]]

RecalculateCurve(e) ==
    LET d  == DerivativeControlPoints(e.control_points)
        e1 == [e EXCEPT !.derivative_ctrl_pts = d,
                        !.curve_points = PrimarySamples(e.control_points, e.resolution, @)]
    IN  RecalculateParallels(e1, RecalculateTangentPoints(d, e1.resolution),
                             e1.parallels_distance)

\* GetCurve testing _control_point_modified first.
RecomputePath_ControlFirst(e) ==
    IF e.control_point_modified THEN "recalculate"
    ELSE IF e.resolution_modified THEN "resize"
    ELSE "cached"

\* Which branch of GetCurve's "if / else if" runs.
RecomputePath(e) ==
    IF e.resolution_modified THEN "resize"
    ELSE IF e.control_point_modified THEN "recalculate"
    ELSE "cached"

\* GetCurve with the two offset cases exchanged.
SelectCurve_Swapped(e, idx) ==
    CASE idx = 1 -> [e EXCEPT !.curve_points = e.bottom_right_points]
      [] idx = 2 -> [e EXCEPT !.curve_points = e.top_left_points]
      [] OTHER   -> e

\* "points" is a reference bound to _curve_points, so "points = _top_left_points"
\* copy-assigns the offset vector into _curve_points.
SelectCurve(e, idx) ==
    CASE idx = 1 -> [e EXCEPT !.curve_points = e.top_left_points]
      [] idx = 2 -> [e EXCEPT !.curve_points = e.bottom_right_points]
      [] OTHER   -> e

\* Refresh leaving _control_point_modified as it was.
Refresh_KeepsControlFlag(e) ==
    LET path == RecomputePath(e)
        e1   == CASE path = "resize"      -> RecalculateCurve(ResizeCurve(e))
                  [] path = "recalculate" -> RecalculateCurve(e)
                  [] OTHER                -> e
    IN  [e1 EXCEPT !.resolution_modified = FALSE]

\* The object after the first part of GetCurve: the recomputation the dirty
\* flags ask for, then both flags cleared.
Refresh(e) ==
    LET path == RecomputePath(e)
        e1   == CASE path = "resize"      -> RecalculateCurve(ResizeCurve(e))
                  [] path = "recalculate" -> RecalculateCurve(e)
                  [] OTHER                -> e
    IN  [e1 EXCEPT !.control_point_modified = FALSE,
                   !.resolution_modified = FALSE]

\* The object after GetCurve(idx).
GetCurveCall(e, idx) == SelectCurve(Refresh(e), idx)

\* What GetCurve returns: the reference "points", that is _curve_points.
Returned(e) == e.curve_points

\* The loop of GetLength: "prev" is a reference to points[0], so each
\* "prev = *itr" stores *itr in element 0 of the vector GetCurve(0) returned.
LengthLoop(e) ==
    LET n == Len(e.curve_points)
    IN  [e EXCEPT !.curve_points = [i \in 1..n |-> IF i = 1 THEN @[n] ELSE @[i]]]

\* What GetLength returns, for e the object after its GetCurve(0): len is the
\* sum of the distances between consecutive elements of the vector as the loop
\* finds it (prev holds the element before *itr at every pass).  The double is
\* modelled by the polyline it is the length of.
Traversed(e) == e.curve_points

\* The object after GetLength(), which starts with GetCurve(0).
GetLengthCall(e) == LengthLoop(GetCurveCall(e, 0))

\* ----------------------------------------------------------------- inputs
Selectors == 0..2
Indices == 0..(kControlPoints - 1)
PointInputs == {<<0, 1>>, <<1, 0>>}
ShiftInputs == {<<0, 0>>, <<1, 0>>}
ResolutionInputs == {Resolution(1, 2, FALSE), Resolution(1, 4, FALSE), Resolution(3, 4, FALSE)}
\* Arguments the asserts reject: the resolutions 0.0 and 1.0, the indices -1 and 4.
BadResolutionInputs == {Resolution(0, 1, FALSE), Resolution(1, 1, FALSE)}
BadIndices == {-1, kControlPoints}

NoView == <<>>
NoViews == [w \in Selectors |-> NoView]

\* -------------------------------------------------------------- operations
\* The object after BezierCurve(): the members the constructor names, the
\* Point arrays default-constructed, the vectors empty.
Init ==
    /\ _resolution = kDefaultResolution
    /\ _length = kDefaultLength
    /\ _fixed_length = FALSE
    /\ _parallels_distance = kDefaultDistance
    /\ _control_points = [i \in Indices |-> [x |-> 0, y |-> 0]]
    /\ m_derivative_ctrl_pts = [i \in 0..(kDerivativeControlPoints - 1) |-> [x |-> 0, y |-> 0]]
    /\ _curve_points = <<>>
    /\ _top_left_points = <<>>
    /\ _bottom_right_points = <<>>
    /\ _resolution_modified = TRUE
    /\ _control_point_modified = TRUE
    /\ op = [name |-> "BezierCurve"]
    /\ held = NoViews
    /\ changed = FALSE
    /\ calls = 0
    /\ aborted = FALSE

\* The fields a call on the object may write, from the object's new value.
Store(e) ==
    /\ _resolution' = e.resolution
    /\ _control_points' = e.control_points
    /\ m_derivative_ctrl_pts' = e.derivative_ctrl_pts
    /\ _curve_points' = e.curve_points
    /\ _top_left_points' = e.top_left_points
    /\ _bottom_right_points' = e.bottom_right_points
    /\ _control_point_modified' = e.control_point_modified
    /\ _resolution_modified' = e.resolution_modified
    /\ UNCHANGED <<_length, _fixed_length, _parallels_distance>>

\* A failed assert: abort() ends the process, the object is as the call found it.
Abort(call, arg) ==
    /\ UNCHANGED <<engine, held, changed>>
    /\ op' = [name |-> "assert", call |-> call, arg |-> arg]
    /\ aborted' = TRUE

\* assert(resolution > 0.0F && resolution <= 1.0F)
ResolutionPrecondition_Inclusive(resolution) ==
    resolution.n > 0 /\ resolution.n <= resolution.d

\* assert(resolution > 0.0F && resolution < 1.0F)
ResolutionPrecondition(resolution) ==
    resolution.n > 0 /\ resolution.n < resolution.d

\* assert(index < kControlPoints) for an unsigned index, and
\* assert(index >= 0 && index < kControlPoints) for an int one: a negative
\* argument converted to unsigned is 2^32 + index, which fails the first too.
IndexPrecondition(index) == index >= 0 /\ index < kControlPoints

\* SetResolution marking the control points modified as well.
SetResolutionCall_BothFlags(e, resolution) ==
    IF resolution # e.resolution
    THEN [e EXCEPT !.resolution = resolution, !.resolution_modified = TRUE,
                   !.control_point_modified = TRUE]
    ELSE e

\* SetResolution resizing the vectors at once.
SetResolutionCall_Eager(e, resolution) ==
    IF resolution # e.resolution
    THEN ResizeCurve([e EXCEPT !.resolution = resolution, !.resolution_modified = TRUE])
    ELSE e

SetResolutionCall(e, resolution) ==
    IF resolution # e.resolution
    THEN [e EXCEPT !.resolution = resolution, !.resolution_modified = TRUE]
    ELSE e

SetResolution(resolution) ==
    /\ calls < MaxCalls /\ ~aborted
    /\ IF ResolutionPrecondition(resolution)
       THEN /\ Store(SetResolutionCall(Engine, resolution))
            /\ op' = [name |-> "SetResolution", resolution |-> resolution,
                      old |-> _resolution]
            /\ held' = NoViews
            /\ changed' = (changed \/ resolution # _resolution)
            /\ aborted' = FALSE
       ELSE Abort("SetResolution", resolution)
    /\ calls' = calls + 1

\* SetControlPoint without the comparison with the stored point.
SetControlPointCall_Unconditional(e, x, y, index) ==
    [e EXCEPT !.control_point_modified = TRUE,
              !.control_points =
                  [i \in Indices |-> IF i = index THEN [x |-> x, y |-> y] ELSE @[i]]]

SetControlPointCall(e, x, y, index) ==
    IF e.control_points[index].x # x \/ e.control_points[index].y # y
    THEN [e EXCEPT !.control_point_modified = TRUE,
                   !.control_points =
                       [i \in Indices |-> IF i = index THEN [x |-> x, y |-> y] ELSE @[i]]]
    ELSE e

SetControlPoint(x, y, index) ==
    /\ calls < MaxCalls /\ ~aborted
    /\ IF IndexPrecondition(index)
       THEN /\ Store(SetControlPointCall(Engine, x, y, index))
            /\ op' = [name |-> "SetControlPoint", x |-> x, y |-> y, index |-> index,
                      old |-> _control_points[index]]
            /\ held' = NoViews
            /\ changed' = (changed \/ _control_points[index] # [x |-> x, y |-> y])
            /\ aborted' = FALSE
       ELSE Abort("SetControlPoint", index)
    /\ calls' = calls + 1

\* GetControlPoint returns a reference to the stored point.
GetControlPoint(index) ==
    /\ calls < MaxCalls /\ ~aborted
    /\ IF IndexPrecondition(index)
       THEN /\ UNCHANGED <<engine, held, changed, aborted>>
            /\ op' = [name |-> "GetControlPoint", index |-> index,
                      point |-> _control_points[index]]
       ELSE Abort("GetControlPoint", index)
    /\ calls' = calls + 1

MoveCall(e, cx, cy) ==
    IF cx # 0 \/ cy # 0
    THEN [e EXCEPT !.control_points =
                       [i \in Indices |-> [x |-> @[i].x + cx, y |-> @[i].y + cy]],
                   !.control_point_modified = TRUE]
    ELSE e

Move(cx, cy) ==
    /\ calls < MaxCalls /\ ~aborted
    /\ Store(MoveCall(Engine, cx, cy))
    /\ op' = [name |-> "Move", cx |-> cx, cy |-> cy]
    /\ held' = NoViews
    /\ changed' = (changed \/ cx # 0 \/ cy # 0)
    /\ calls' = calls + 1
    /\ UNCHANGED aborted

\* The two queries.  fresh is Refresh(Engine): every query starts with it, and
\* Next computes it once for the four of them.  op.primary is _curve_points as
\* the recomputation left it, before the switch on idx and the loop of GetLength.
GetCurve(idx, fresh) ==
    /\ calls < MaxCalls /\ ~aborted
    /\ LET e == SelectCurve(fresh, idx)
       IN  /\ Store(e)
           /\ held' = IF held[idx] = NoView
                      THEN [held EXCEPT ![idx] = Returned(e)]
                      ELSE held
    /\ op' = [name |-> "GetCurve", idx |-> idx, path |-> RecomputePath(Engine),
              oldsize |-> Len(_curve_points), primary |-> fresh.curve_points]
    /\ changed' = FALSE
    /\ calls' = calls + 1
    /\ UNCHANGED aborted

GetLength(fresh) ==
    /\ calls < MaxCalls /\ ~aborted
    /\ Store(LengthLoop(SelectCurve(fresh, 0)))
    /\ op' = [name |-> "GetLength", path |-> RecomputePath(Engine),
              oldsize |-> Len(_curve_points), primary |-> fresh.curve_points,
              len |-> Traversed(SelectCurve(fresh, 0))]
    /\ UNCHANGED <<held, changed, aborted>>
    /\ calls' = calls + 1

Next ==
    \/ \E r \in ResolutionInputs \cup BadResolutionInputs : SetResolution(r)
    \/ \E p \in PointInputs, i \in Indices \cup BadIndices :
          SetControlPoint(p[1], p[2], i)
    \/ \E i \in {kControlPoints - 1} \cup BadIndices : GetControlPoint(i)
    \/ \E c \in ShiftInputs : Move(c[1], c[2])
    \/ LET fresh == Refresh(Engine)
       IN  \/ \E w \in Selectors : GetCurve(w, fresh)
           \/ GetLength(fresh)

Spec == Init /\ [][Next]_vars

\* ------------------------------------------------------------- properties
Queries == {"GetCurve", "GetLength"}
Mutators == {"SetResolution", "SetControlPoint", "Move"}

Clean == ~_resolution_modified /\ ~_control_point_modified

\* What "recompute geometry" yields from the control points, the resolution and
\* the offset distance of e alone: the vectors start empty.
Geometry(e) ==
    RecalculateCurve(ResizeCurve([e EXCEPT !.curve_points = <<>>,
                                           !.top_left_points = <<>>,
                                           !.bottom_right_points = <<>>]))

\* The sequence selector w names, in the geometry g.
Requested(g, w) ==
    CASE w = 1 -> g.top_left_points
      [] w = 2 -> g.bottom_right_points
      [] OTHER -> g.curve_points

\* What a caller sees now through a view GetCurve returned: GetCurve returns
\* a reference to _curve_points whatever the selector.
ViewContents == _curve_points

\* C1: whenever both dirty flags are false, the three cached sequences are what
\* recomputing the geometry from the current control points, resolution and
\* offset distance yields.
C1_CacheCoherent ==
    Clean =>
        LET g == Geometry(Engine)
        IN  /\ _curve_points = g.curve_points
            /\ _top_left_points = g.top_left_points
            /\ _bottom_right_points = g.bottom_right_points

\* C2: a GetCurve(w) call returns the sequence the first GetCurve(w) call since
\* the last mutator call returned, whatever queries were made in between.
C2_Idempotent ==
    [][\A w \in Selectors :
          (op'.name = "GetCurve" /\ op'.idx = w /\ held[w] # NoView)
              => ViewContents' = held[w]]_vars

\* C3: the sequence GetCurve(0) returns starts with control point 0 and ends
\* with control point 3.
C3_Endpoints ==
    (op.name = "GetCurve" /\ op.idx = 0) =>
        /\ ViewContents[1] = Pt(NumInt(_control_points[0].x), NumInt(_control_points[0].y))
        /\ ViewContents[Len(ViewContents)]
               = Pt(NumInt(_control_points[3].x), NumInt(_control_points[3].y))

\* C4: the left and right offset sequences never hold a NaN.
C4_NoNaN ==
    \A i \in 1..Len(_top_left_points) :
        /\ ~IsNaN(_top_left_points[i].x) /\ ~IsNaN(_top_left_points[i].y)
        /\ ~IsNaN(_bottom_right_points[i].x) /\ ~IsNaN(_bottom_right_points[i].y)

\* C5: until the next mutator call, a view GetCurve(w) returned shows what it
\* showed when it was returned.
C5_ViewStable == \A w \in Selectors : held[w] # NoView => ViewContents = held[w]

\* C6: a mutator that changes a value leaves its dirty flag true, and the first
\* GetCurve(w) call after such a change returns sequence w of the geometry of
\* the current control points and resolution.
C6_NoStaleCache ==
    [][/\ (op'.name = "SetResolution" /\ op'.resolution # _resolution)
              => _resolution_modified'
       /\ (op'.name = "SetControlPoint"
              /\ [x |-> op'.x, y |-> op'.y] # _control_points[op'.index])
              => _control_point_modified'
       /\ (op'.name = "Move" /\ (op'.cx # 0 \/ op'.cy # 0))
              => _control_point_modified'
       /\ (op'.name = "GetCurve" /\ changed)
              => ViewContents' = Requested(Geometry(Engine'), op'.idx)]_vars

\* C7: the engine starts with both flags true; every GetCurve and GetLength call
\* ends with both flags false; and only those calls turn a flag from true to false.
C7_QueriesReachClean ==
    /\ (_resolution_modified = TRUE /\ _control_point_modified = TRUE)
    /\ [][/\ op'.name \in Queries => Clean'
          /\ ((_resolution_modified /\ ~_resolution_modified')
               \/ (_control_point_modified /\ ~_control_point_modified'))
                 => op'.name \in Queries]_vars

\* A query made with both flags true has ended with both false.
C7_Witness == op.name \in Queries /\ op.path = "resize" /\ Clean

\* C8: a mutator call never turns a dirty flag from true to false; SetResolution
\* leaves _control_point_modified as it was, SetControlPoint and Move leave
\* _resolution_modified as it was.
C8_MutatorsMonotone ==
    [][op'.name \in Mutators =>
          /\ _resolution_modified => _resolution_modified'
          /\ _control_point_modified => _control_point_modified'
          /\ op'.name = "SetResolution"
                => _control_point_modified' = _control_point_modified
          /\ op'.name \in {"SetControlPoint", "Move"}
                => _resolution_modified' = _resolution_modified]_vars

\* SetResolution changed the resolution of a clean engine: its flag is set, the
\* other one is still false.
C8_Witness ==
    /\ op.name = "SetResolution" /\ op.resolution # op.old
    /\ _resolution_modified /\ ~_control_point_modified

\* C9: SetResolution with the current resolution, SetControlPoint with the
\* stored point and Move(0, 0) leave every field of the engine unchanged; and a
\* GetCurve call that follows such a call on a clean engine recomputes nothing.
C9_NoOpMutation ==
    [][/\ (\/ op'.name = "SetResolution" /\ op'.resolution = _resolution
           \/ op'.name = "SetControlPoint"
                /\ [x |-> op'.x, y |-> op'.y] = _control_points[op'.index]
           \/ op'.name = "Move" /\ op'.cx = 0 /\ op'.cy = 0)
             => UNCHANGED engine
       /\ (/\ op'.name = "GetCurve"
           /\ Clean
           /\ \/ op.name = "SetResolution" /\ op.resolution = op.old
              \/ op.name = "SetControlPoint" /\ [x |-> op.x, y |-> op.y] = op.old
              \/ op.name = "Move" /\ op.cx = 0 /\ op.cy = 0)
             => /\ op'.path = "cached"
                /\ UNCHANGED <<_top_left_points, _bottom_right_points,
                               m_derivative_ctrl_pts>>
                /\ op'.idx = 0 => UNCHANGED _curve_points]_vars

\* SetControlPoint was called on a clean engine with the point already stored
\* (one that is not the constructor's), and the engine is still clean.
C9_Witness ==
    /\ op.name = "SetControlPoint" /\ op.old = [x |-> op.x, y |-> op.y]
    /\ _control_points[op.index] # [x |-> 0, y |-> 0]
    /\ Clean

\* An element no recomputation wrote.
StalePoint == Pt(<<0, 0, 0, 0, 0>>, <<0, 0, 0, 0, 0>>)

\* e with every element of the three cached sequences marked stale.
AllStale(e) ==
    [e EXCEPT !.curve_points = [i \in 1..Len(@) |-> StalePoint],
              !.top_left_points = [i \in 1..Len(@) |-> StalePoint],
              !.bottom_right_points = [i \in 1..Len(@) |-> StalePoint]]

NoStale(v) == \A i \in 1..Len(v) : v[i] # StalePoint

\* C10: once SetResolution has changed the resolution from the constructor's
\* r1 to r2, a query made with the resolution flag set leaves each of the three
\* sequences with floor(1/r2) + 1 elements, and every element is one the
\* recomputation wrote: the call gives the same three sequences when every
\* element of the resized sequences is marked stale before RecalculateCurve
\* runs, and no mark is left.
C10_ResizeCorrect ==
    [][(/\ op'.name \in Queries
        /\ _resolution_modified
        /\ _resolution # kDefaultResolution) =>
          LET n == (_resolution.d \div _resolution.n) + 1
              recomputed == RecalculateCurve(AllStale(ResizeCurve(Engine)))
              after == IF op'.name = "GetCurve"
                       THEN SelectCurve(recomputed, op'.idx)
                       ELSE LengthLoop(SelectCurve(recomputed, 0))
          IN  /\ Len(_curve_points') = n
              /\ Len(_top_left_points') = n
              /\ Len(_bottom_right_points') = n
              /\ NoStale(after.curve_points) /\ _curve_points' = after.curve_points
              /\ NoStale(after.top_left_points)
              /\ _top_left_points' = after.top_left_points
              /\ NoStale(after.bottom_right_points)
              /\ _bottom_right_points' = after.bottom_right_points]_vars

\* A query resized sequences that held the samples of another resolution.
C10_Witness ==
    /\ op.name \in Queries /\ op.path = "resize"
    /\ _resolution # kDefaultResolution
    /\ op.oldsize > 0 /\ op.oldsize # Len(_curve_points)
    /\ Len(_curve_points) = (_resolution.d \div _resolution.n) + 1

\* C11: a GetLength call made right after GetCurve(0) leaves the sequence
\* GetCurve(0) returns as that call returned it, and a GetLength call made right
\* after another GetLength call returns what that one returned.
C11_GetLengthReadOnly ==
    [][op'.name = "GetLength" =>
          /\ (op.name = "GetCurve" /\ op.idx = 0)
                => Returned(GetCurveCall(Engine', 0)) = ViewContents
          /\ op.name = "GetLength" => op'.len = op.len]_vars

\* C12: no SetResolution call with a resolution outside (0, 1) and no
\* SetControlPoint or GetControlPoint call with an index outside 0..3 completes:
\* each ends in a failed assert, with every field of the engine as it was.
C12_ContractViolations ==
    [][/\ op'.name = "SetResolution"
             => op'.resolution.n > 0 /\ op'.resolution.n < op'.resolution.d
       /\ op'.name \in {"SetControlPoint", "GetControlPoint"}
             => op'.index \in 0..3
       /\ op'.name = "assert" => aborted' /\ UNCHANGED engine]_vars

\* SetControlPoint with index 4 on an engine that holds samples, a changed
\* control point and a set flag: the assert has failed.
C12_Witness ==
    /\ aborted /\ op.name = "assert"
    /\ op.call = "SetControlPoint" /\ op.arg = kControlPoints
    /\ _control_point_modified /\ Len(_curve_points) > 0

\* The last call was a query that recomputed the geometry.
Recomputed == op.name \in Queries /\ op.path # "cached"

\* The tangent vector the recomputation held for each index.
Tangents == RecalculateTangentPoints(m_derivative_ctrl_pts, _resolution)

\* v - c for a rational c.
Minus(v, c) ==
    IF IsNaN(v) \/ IsNaN(c) THEN NaN
    ELSE Surd(RatSub(NumQ(v), NumQ(c)), NumP(v), NumS(v))

\* (v / distance)^2 when that is rational, else -1.
UnitSquare(v, distance) ==
    IF IsNaN(v) THEN RatInt(-1)
    ELSE IF v[3] = 0
         THEN LET u == RatMul(NumQ(v), RatInv(distance)) IN RatMul(u, u)
    ELSE IF v[1] = 0
         THEN LET u == RatMul(NumP(v), RatInv(distance))
              IN  RatMul(RatMul(u, u), [n |-> 1, d |-> NumS(v)])
    ELSE RatInt(-1)

\* C13: right after a recomputation, at every index whose tangent is not (0, 0),
\* the left offset point minus the primary point is the opposite of the right
\* offset point minus the primary point, its length is _parallels_distance, and
\* it is _parallels_distance * (ty, -tx) for the unit tangent (tx, ty) the
\* recomputation holds for that index.
C13_OffsetSymmetry ==
    Recomputed =>
        LET tangent_points == Tangents
        IN  \A i \in 1..Len(tangent_points) :
            (tangent_points[i].x.n # 0 \/ tangent_points[i].y.n # 0) =>
                LET u   == UnitTangent(tangent_points[i])
                    dlx == Minus(_top_left_points[i].x, op.primary[i].x)
                    dly == Minus(_top_left_points[i].y, op.primary[i].y)
                    drx == Minus(_bottom_right_points[i].x, op.primary[i].x)
                    dry == Minus(_bottom_right_points[i].y, op.primary[i].y)
                IN  /\ dlx = NumNeg(drx) /\ dly = NumNeg(dry)
                    /\ RatAdd(UnitSquare(dlx, _parallels_distance),
                              UnitSquare(dly, _parallels_distance)) = RatInt(1)
                    /\ dlx = NumScale(u.y, _parallels_distance)
                    /\ dly = NumNeg(NumScale(u.x, _parallels_distance))

\* A recomputation left an offset point with an irrational coordinate: its
\* tangent is neither zero nor of rational length.
C13_Witness ==
    /\ Recomputed /\ op.path = "recalculate"
    /\ \E i \in 1..Len(_top_left_points) :
          ~IsNaN(_top_left_points[i].x) /\ _top_left_points[i].x[3] # 0

\* C14: a SetResolution, SetControlPoint or Move call leaves the three cached
\* sequences as they were, and a call that changes one of them is a GetCurve or
\* a GetLength call.
C14_LazyMutators ==
    [][/\ op'.name \in Mutators
             => UNCHANGED <<_curve_points, _top_left_points, _bottom_right_points>>
       /\ ~UNCHANGED <<_curve_points, _top_left_points, _bottom_right_points>>
             => op'.name \in Queries]_vars

\* SetResolution changed the resolution of an engine whose sequences still have
\* the length of the resolution before.
C14_Witness ==
    /\ op.name = "SetResolution" /\ op.resolution # op.old
    /\ Len(_curve_points) > 0
    /\ Len(_curve_points) # SampleCount(_resolution)
    /\ Len(_curve_points) = SampleCount(op.old)

\* The cubic Bezier point of the control points cp at parameter t.
BezierPoint(cp, t) ==
    Pt(Num(CubicBezier(cp[0].x, cp[1].x, cp[2].x, cp[3].x, t)),
       Num(CubicBezier(cp[0].y, cp[1].y, cp[2].y, cp[3].y, t)))

\* C15: right after a recomputation, the primary sample at every interior index
\* k (1 <= k <= N-2) is the cubic Bezier point at t = _resolution * k.
C15_InteriorParameter ==
    Recomputed =>
        \A k \in 1..(Len(op.primary) - 2) :
            op.primary[k + 1]
                = BezierPoint(_control_points, RatMul(_resolution, RatInt(k)))

\* The parameter that produced the primary point at position i of n (counted
\* from 1): the end points are control points 0 and 3, the points at t = 0 and
\* t = 1; the others come from the loop of RecalculateCurve.
ParameterOf(i, n) ==
    IF i = 1 THEN RatInt(0)
    ELSE IF i = n THEN RatInt(1)
    ELSE PrimaryT(_resolution, i - 1)

\* The derivative of the curve at parameter t.
TangentAt(t) ==
    LET d == m_derivative_ctrl_pts
    IN  [x |-> QuadBezier(d[0].x, d[1].x, d[2].x, t),
         y |-> QuadBezier(d[0].y, d[1].y, d[2].y, t)]

\* C16: right after a recomputation, at every index the tangent the offset
\* points are built from is the derivative at the parameter that produced the
\* primary point of that index, and the offset points lie on either side of
\* that primary point.
C16_IndexAligned ==
    Recomputed =>
        LET tangent_points == Tangents
        IN  \A i \in 1..Len(op.primary) :
            /\ tangent_points[i] = TangentAt(ParameterOf(i, Len(op.primary)))
            /\ ~IsNaN(_top_left_points[i].x) =>
                  /\ Minus(_top_left_points[i].x, op.primary[i].x)
                       = NumNeg(Minus(_bottom_right_points[i].x, op.primary[i].x))
                  /\ Minus(_top_left_points[i].y, op.primary[i].y)
                       = NumNeg(Minus(_bottom_right_points[i].y, op.primary[i].y))

\* The lengths of the three cached sequences.
Lengths == <<Len(_curve_points), Len(_top_left_points), Len(_bottom_right_points)>>

\* C17: a query made with _resolution_modified set, whatever
\* _control_point_modified is, leaves the three sequences with the length the
\* resolution asks for; one made with only _control_point_modified set leaves
\* their lengths as they were; both leave the geometry of the current control
\* points and resolution.  A query made with both flags false leaves the
\* sequences and the derived control points as the recomputation before left them.
C17_PathSelection ==
    /\ []((op.name \in Queries /\ op.path # "cached") =>
            LET g == Geometry(Engine)
            IN  /\ op.primary = g.curve_points
                /\ _top_left_points = g.top_left_points
                /\ _bottom_right_points = g.bottom_right_points
                /\ m_derivative_ctrl_pts = g.derivative_ctrl_pts)
    /\ [][op'.name \in Queries =>
            IF _resolution_modified
            THEN /\ op'.path # "cached"
                 /\ \A j \in 1..3 : Lengths'[j] = SampleCount(_resolution)
            ELSE IF _control_point_modified
            THEN /\ op'.path # "cached"
                 /\ Lengths' = Lengths
            ELSE /\ op'.path = "cached"
                 /\ op'.primary = _curve_points
                 /\ UNCHANGED <<_top_left_points, _bottom_right_points,
                                m_derivative_ctrl_pts>>]_vars

\* A query made with only _control_point_modified set recomputed the geometry
\* of sequences whose length is not the default one.
C17_Witness ==
    /\ op.name \in Queries /\ op.path = "recalculate"
    /\ _resolution # kDefaultResolution
    /\ op.oldsize = Len(_curve_points)
    /\ \E i \in 1..Len(op.primary) : op.primary[i] # PointDefault

\* floor(1 / resolution), for the value the stored double has.
FloorInv(resolution) ==
    IF resolution.above /\ resolution.d % resolution.n = 0
    THEN (resolution.d \div resolution.n) - 1
    ELSE resolution.d \div resolution.n

\* C18: the three cached sequences always have the same length; while
\* _resolution_modified is false that length is floor(1 / _resolution) + 1, which
\* is at least 2; and a recomputation works on sequences that are not empty,
\* with a tangent sequence of that same length.
C18_SequenceLengths ==
    /\ Lengths[1] = Lengths[2] /\ Lengths[2] = Lengths[3]
    /\ ~_resolution_modified =>
          /\ Lengths[1] = FloorInv(_resolution) + 1
          /\ Lengths[1] >= 2
    /\ Recomputed =>
          LET size == Len(Tangents)
          IN  /\ Len(op.primary) >= 2
              /\ size = Len(op.primary)
              /\ size = Lengths[2] /\ size = Lengths[3]

\* A query recomputed sequences of the least length there is, 2, without
\* resizing them.
C18_Witness ==
    /\ Recomputed /\ op.path = "recalculate"
    /\ Lengths = <<2, 2, 2>>

\* C19: what GetCurve(1) and GetCurve(2) return is the left and the right offset
\* sequence of the geometry of the current control points, resolution and offset
\* distance, as the engine stores them; and a query made with both flags false
\* leaves the two stored offset sequences as they were.
C19_OffsetQueries ==
    /\ []((op.name = "GetCurve" /\ op.idx \in {1, 2}) =>
            LET g == Geometry(Engine)
            IN  /\ ViewContents = Requested(g, op.idx)
                /\ _top_left_points = g.top_left_points
                /\ _bottom_right_points = g.bottom_right_points)
    /\ [][(op'.name \in Queries /\ Clean)
            => UNCHANGED <<_top_left_points, _bottom_right_points>>]_vars

\* GetCurve(2) was called on a clean engine, after other queries, and returned
\* offset points that are numbers.
C19_Witness ==
    /\ op.name = "GetCurve" /\ op.idx = 2 /\ op.path = "cached"
    /\ calls >= 3
    /\ \E i \in 1..Len(_bottom_right_points) : ~IsNaN(_bottom_right_points[i].x)

====
